---- MODULE Spec2Model ----
(***************************************************************************)
(* Model of desktop_app/src/packer_logic.py (yamadashy/repomix desktop     *)
(* front-end): get_bundled_repomix_path, is_url and run_repomix_command,   *)
(* together with the part of the operating system they touch (platform,    *)
(* filesystem, permission bits, the external process).                     *)
(*                                                                         *)
(* Texts.  A Python str is modelled as a sequence of fragments (TLA+       *)
(* strings).  Every text that comes from the user or is compared with one  *)
(* (inputs, patterns, file names, styles, command-line switches, the cwd)  *)
(* is written character by character, so that startswith, split and       *)
(* equality are computed as Python computes them.  Program literals that   *)
(* only ever appear inside messages or inside the executable's path are    *)
(* kept as one fragment each; in those paths every separator is a          *)
(* fragment of its own.                                                    *)
(***************************************************************************)
EXTENDS Integers, Sequences, FiniteSets, TLC

------------------------------------------------------------------------------
(* Text helpers (Python str operations used by the code) *)

\* str.startswith(prefix)
StartsWith(s, prefix) ==
    /\ Len(s) >= Len(prefix)
    /\ SubSeq(s, 1, Len(prefix)) = prefix

\* str.split(sep) for a one-character separator: the list of segments
RECURSIVE SplitFrom(_, _, _, _)
SplitFrom(s, sep, i, cur) ==
    IF i > Len(s) THEN <<cur>>
    ELSE IF s[i] = sep THEN <<cur>> \o SplitFrom(s, sep, i + 1, <<>>)
    ELSE SplitFrom(s, sep, i + 1, Append(cur, s[i]))

Split(s, sep) == SplitFrom(s, sep, 1, <<>>)

\* "needle in haystack" for texts: needle is a contiguous part of haystack
Contains(haystack, needle) ==
    \E i \in 1..(Len(haystack) - Len(needle) + 1) :
        SubSeq(haystack, i, i + Len(needle) - 1) = needle

\* str(n) for an int: decimal digits, with a leading "-" when negative
Digit(d) == <<"0", "1", "2", "3", "4", "5", "6", "7", "8", "9">>[d + 1]

RECURSIVE NatToStr(_)
NatToStr(n) == IF n < 10 THEN <<Digit(n)>> ELSE Append(NatToStr(n \div 10), Digit(n % 10))

IntToStr(n) == IF n < 0 THEN <<"-">> \o NatToStr(0 - n) ELSE NatToStr(n)

------------------------------------------------------------------------------
(* Command-line literals of run_repomix_command, character by character *)

REMOTE == <<"-", "-", "r", "e", "m", "o", "t", "e">>
OPT_O == <<"-", "o">>
OPT_STYLE == <<"-", "-", "s", "t", "y", "l", "e">>
OPT_INCLUDE == <<"-", "-", "i", "n", "c", "l", "u", "d", "e">>
OPT_IGNORE == <<"-", "-", "i", "g", "n", "o", "r", "e">>
SW_NO_FILE_SUMMARY == <<"-", "-", "n", "o", "-", "f", "i", "l", "e", "-", "s", "u", "m", "m", "a", "r", "y">>
SW_NO_DIRECTORY_STRUCTURE == <<"-", "-", "n", "o", "-", "d", "i", "r", "e", "c", "t", "o", "r", "y", "-", "s", "t", "r", "u", "c", "t", "u", "r", "e">>
SW_OUTPUT_SHOW_LINE_NUMBERS == <<"-", "-", "o", "u", "t", "p", "u", "t", "-", "s", "h", "o", "w", "-", "l", "i", "n", "e", "-", "n", "u", "m", "b", "e", "r", "s">>
SW_PARSABLE_STYLE == <<"-", "-", "p", "a", "r", "s", "a", "b", "l", "e", "-", "s", "t", "y", "l", "e">>
SW_COMPRESS == <<"-", "-", "c", "o", "m", "p", "r", "e", "s", "s">>
SW_REMOVE_COMMENTS == <<"-", "-", "r", "e", "m", "o", "v", "e", "-", "c", "o", "m", "m", "e", "n", "t", "s">>
SW_REMOVE_EMPTY_LINES == <<"-", "-", "r", "e", "m", "o", "v", "e", "-", "e", "m", "p", "t", "y", "-", "l", "i", "n", "e", "s">>
QUIET == <<"-", "-", "q", "u", "i", "e", "t">>
HTTP == <<"h", "t", "t", "p", ":", "/", "/">>
HTTPS == <<"h", "t", "t", "p", "s", ":", "/", "/">>

\* The switch each of the seven boolean parameters appends, in the order of
\* the signature: no_file_summary, no_directory_structure, show_line_numbers,
\* parsable_style, compress_code, remove_comments, remove_empty_lines.
Switches ==
    <<SW_NO_FILE_SUMMARY, SW_NO_DIRECTORY_STRUCTURE, SW_OUTPUT_SHOW_LINE_NUMBERS,
      SW_PARSABLE_STYLE, SW_COMPRESS, SW_REMOVE_COMMENTS, SW_REMOVE_EMPTY_LINES>>

------------------------------------------------------------------------------
(* os.path of the running platform: posixpath, or ntpath on win32.  The    *)
(* ntpath model covers paths with at most one drive, written "C", ":".     *)

IsWindows(plat) == plat = <<"win32">>

\* os.sep
Sep(plat) == IF IsWindows(plat) THEN "\\" ELSE "/"

\* whether path b restarts from a root, discarding what precedes it in a join
IsRooted(plat, b) ==
    /\ b # <<>>
    /\ \/ b[1] = "/"
       \/ IsWindows(plat) /\ b[1] = "\\"

\* the drive of an ntpath path ("" on posix)
Drive(plat, a) ==
    IF IsWindows(plat) /\ Len(a) >= 2 /\ a[2] = ":" THEN SubSeq(a, 1, 2) ELSE <<>>

\* a variant of PathJoin that always appends b to a
PathJoin_Concat(plat, a, b) ==
    IF a = <<>> \/ a[Len(a)] = Sep(plat) THEN a \o b ELSE a \o <<Sep(plat)>> \o b

\* os.path.join(a, b)
PathJoin(plat, a, b) ==
    IF IsRooted(plat, b) THEN Drive(plat, a) \o b
    ELSE IF a = <<>> \/ a[Len(a)] = Sep(plat) \/ (IsWindows(plat) /\ a[Len(a)] \in {"/", ":"})
         THEN a \o b
         ELSE a \o <<Sep(plat)>> \o b

\* index of the last separator of p, 0 when there is none
LastSep(plat, p) ==
    LET at == {i \in 1..Len(p) : p[i] = Sep(plat)}
    IN  IF at = {} THEN 0 ELSE CHOOSE i \in at : \A j \in at : j <= i

\* os.path.dirname(p), for a path with one separator between components
Dirname(plat, p) ==
    LET i == LastSep(plat, p)
        root == Len(Drive(plat, p)) + 1
    IN  IF i = 0 THEN Drive(plat, p)
        ELSE IF i = root THEN SubSeq(p, 1, i)
        ELSE SubSeq(p, 1, i - 1)

\* the component stack of normpath: "." and "" are dropped, ".." pops
RECURSIVE NormComponents(_, _)
NormComponents(comps, stack) ==
    IF comps = <<>> THEN stack
    ELSE LET c == Head(comps)
         IN  IF c = <<>> \/ c = <<".">> THEN NormComponents(Tail(comps), stack)
             ELSE IF c = <<"..">> \/ c = <<".", ".">>
                  THEN NormComponents(Tail(comps),
                           IF stack = <<>> THEN stack ELSE SubSeq(stack, 1, Len(stack) - 1))
                  ELSE NormComponents(Tail(comps), Append(stack, c))

RECURSIVE JoinWith(_, _)
JoinWith(sep, comps) ==
    IF comps = <<>> THEN <<>>
    ELSE IF Len(comps) = 1 THEN comps[1]
    ELSE comps[1] \o <<sep>> \o JoinWith(sep, Tail(comps))

\* os.path.abspath(p) of an absolute path p (drive, root, components)
AbsPath(plat, p) ==
    LET root == Drive(plat, p) \o <<Sep(plat)>>
        rest == SubSeq(p, Len(root) + 1, Len(p))
    IN  root \o JoinWith(Sep(plat), NormComponents(Split(rest, Sep(plat)), <<>>))

------------------------------------------------------------------------------
(* The environment the code reads: sys.platform, sys.frozen, sys._MEIPASS, *)
(* sys.executable, __file__, os.getcwd()                                   *)

Platforms == {<<"win32">>, <<"darwin">>, <<"linux">>, <<"freebsd">>}

Root(plat) == IF IsWindows(plat) THEN <<"C", ":", "\\">> ELSE <<"/">>

MkPath(plat, comps) == Root(plat) \o JoinWith(Sep(plat), comps)

\* os.getcwd()
Cwd(plat) == MkPath(plat, <<<<"w">>>>)

\* sys.executable of a packaged application
SysExecutable(plat) == MkPath(plat, <<<<"opt">>, <<"RepoPacker">>, <<"RepoPacker">>>>)

\* sys._MEIPASS of a one-file bundle
SysMEIPASS(plat) == MkPath(plat, <<<<"tmp">>, <<"_MEI1">>>>)

\* __file__ of packer_logic.py in a source checkout
ModuleFile(plat) ==
    MkPath(plat, <<<<"proj">>, <<"desktop_app">>, <<"src">>, <<"packer_logic.py">>>>)

VARIABLES
    platform,          \* sys.platform
    frozen,            \* getattr(sys, 'frozen', False)
    meipass,           \* hasattr(sys, '_MEIPASS')
    onPath,            \* the command names the search path (PATH) resolves
    files,             \* filesystem: the set of paths that exist
    exeMode,           \* filesystem: permission bits of the bundled executable
    noexec,            \* filesystem: the executable sits on a no-exec mount
    pc,                \* phase of the current invocation
    opts,              \* the arguments of the current invocation
    repomix_exe_path,  \* local variable of run_repomix_command
    cmd_parts,         \* local variable of run_repomix_command
    output_file_path,  \* local variable of run_repomix_command
    process,           \* the CompletedProcess of subprocess.run
    out_at_exit,       \* whether the output file existed when the process finished
    effects,           \* the system calls with an effect made by this invocation
    result             \* the returned tuple (success, stdout, stderr, output_file_path)

\* MainWindow (main_window.py)
VARIABLES
    path_input_text,      \* self.path_input_field.text()
    style_choice,         \* the checked radio button: "xml", "markdown" or "plain"
    include_text,         \* self.include_patterns_input.text()
    ignore_text,          \* self.ignore_patterns_input.text()
    checked,              \* isChecked() of the seven checkboxes, in layout order
    pack_button_enabled,  \* self.pack_button.isEnabled()
    override_cursors,     \* depth of QApplication's override cursor stack
    last_click            \* how the last run of on_pack_button_clicked ended

runnerVars ==
    <<platform, frozen, meipass, onPath, files, exeMode, noexec, pc, opts,
      repomix_exe_path, cmd_parts, output_file_path, process, out_at_exit,
      effects, result>>

windowVars ==
    <<path_input_text, style_choice, include_text, ignore_text, checked,
      pack_button_enabled, override_cursors, last_click>>

vars == <<runnerVars, windowVars>>

envVars == <<platform, frozen, meipass, onPath, noexec>>

------------------------------------------------------------------------------
(* get_bundled_repomix_path *)

PLACEHOLDER == <<"repomix-placeholder">>

SupportedPlatform(plat) ==
    \/ plat = <<"win32">>
    \/ plat = <<"darwin">>
    \/ StartsWith(plat, <<"linux">>)

\* a variant of ExecutableName whose macOS branch names the Linux file
ExecutableName_MacAsLinux(plat) ==
    IF plat = <<"win32">> THEN PLACEHOLDER \o <<"-standalone-win.exe">>
    ELSE PLACEHOLDER \o <<"-standalone-linux">>

\* lines 13-21: the platform's file name; the else branch raises
ExecutableName(plat) ==
    IF plat = <<"win32">> THEN PLACEHOLDER \o <<"-standalone-win.exe">>
    ELSE IF plat = <<"darwin">> THEN PLACEHOLDER \o <<"-standalone-macos">>
    ELSE PLACEHOLDER \o <<"-standalone-linux">>

\* lines 23-43: the directory searched, by packaging mode
ExecutableDir(plat, isFrozen, hasMeipass) ==
    IF isFrozen
    THEN LET application_path ==
                 IF hasMeipass THEN SysMEIPASS(plat)
                 ELSE Dirname(plat, SysExecutable(plat))
         IN  PathJoin(plat, application_path, <<"bundled_repomix_bin">>)
    ELSE LET project_root ==
                 AbsPath(plat,
                     PathJoin(plat,
                         PathJoin(plat, Dirname(plat, ModuleFile(plat)), <<"..">>),
                         <<"..">>))
         IN  PathJoin(plat,
                 PathJoin(plat,
                     PathJoin(plat, project_root, <<"build_prep">>),
                     <<"repomix_cli">>),
                 <<"dist">>)

\* the value get_bundled_repomix_path returns on a supported platform; the
\* search path is never consulted
get_bundled_repomix_path(plat, isFrozen, hasMeipass) ==
    PathJoin(plat, ExecutableDir(plat, isFrozen, hasMeipass), ExecutableName(plat))

------------------------------------------------------------------------------
(* is_url and the argument list of run_repomix_command *)

\* a variant of is_url that takes any path with a "/" for a shorthand
is_url_AnySlash(path_string) ==
    \/ StartsWith(path_string, HTTP)
    \/ StartsWith(path_string, HTTPS)
    \/ Len(Split(path_string, "/")) >= 2

is_url(path_string) ==
    \/ StartsWith(path_string, HTTP)
    \/ StartsWith(path_string, HTTPS)
    \/ Len(Split(path_string, "/")) = 2

\* lines 97-102, when the input is accepted
InputArgs(input_path) ==
    IF is_url(input_path) THEN <<REMOTE, input_path>> ELSE <<input_path>>

\* lines 110-113: a pattern is passed when it is truthy (neither None nor "")
PatternArgs(include_patterns, ignore_patterns) ==
    (IF include_patterns # <<>> THEN <<OPT_INCLUDE, include_patterns>> ELSE <<>>)
    \o (IF ignore_patterns # <<>> THEN <<OPT_IGNORE, ignore_patterns>> ELSE <<>>)

\* lines 116-129: the switches of the flags that are set, in signature order
RECURSIVE FlagArgsFrom(_, _)
FlagArgsFrom(flags, i) ==
    IF i > Len(Switches) THEN <<>>
    ELSE (IF flags[i] THEN <<Switches[i]>> ELSE <<>>) \o FlagArgsFrom(flags, i + 1)

\* a variant of FlagArgs that appends --remove-empty-lines first
FlagArgs_Reordered(flags) ==
    (IF flags[7] THEN <<Switches[7]>> ELSE <<>>)
    \o FlagArgsFrom([flags EXCEPT ![7] = FALSE], 1)

FlagArgs(flags) == FlagArgsFrom(flags, 1)

\* lines 94-131
BuildCmdParts(exe, o, outPath) ==
    <<exe>>
    \o InputArgs(o.input_path)
    \o <<OPT_O, outPath>>
    \o <<OPT_STYLE, o.output_style>>
    \o PatternArgs(o.include_patterns, o.ignore_patterns)
    \o FlagArgs(o.flags)
    \o <<QUIET>>

------------------------------------------------------------------------------
(* Messages of run_repomix_command (each f-string, with its values) *)

MsgExecutableNotFound(path) ==
    <<"Bundled Repomix executable not found at ">> \o path
    \o <<". Please ensure it's packaged correctly.">>

MsgStillNotExecutable(path) ==
    <<"Bundled Repomix executable (">> \o path
    \o <<") found but is not executable even after chmod.">>

MsgChmodError(path, e) ==
    <<"Error making Repomix executable (">> \o path \o <<"): ">> \o e

MsgInputNotFound(input_path) == <<"Input path not found: ">> \o input_path

MsgSilentFailure(outPath, stdout, stderr) ==
    <<"Repomix command appeared to succeed (exit code 0) but output file was not found at ">>
    \o outPath \o <<".">>
    \o (IF stderr # <<>> THEN <<" STDERR: ">> \o stderr ELSE <<>>)
    \o (IF stdout # <<>> THEN <<" STDOUT: ">> \o stdout ELSE <<>>)

\* a variant of MsgToolFailure that leaves the captured stderr out
MsgToolFailure_NoStderr(returncode, stdout, stderr) ==
    <<"Repomix failed with exit code ">> \o IntToStr(returncode) \o <<".\n">>
    \o <<"Stdout:\n">> \o stdout \o <<"\n">>

MsgToolFailure(returncode, stdout, stderr) ==
    <<"Repomix failed with exit code ">> \o IntToStr(returncode) \o <<".\n">>
    \o <<"Stdout:\n">> \o stdout \o <<"\n">>
    \o <<"Stderr:\n">> \o stderr

MsgFileNotFound ==
    <<"Repomix command execution failed (FileNotFoundError). Ensure npx or repomix is correctly installed and in PATH.">>

MsgUnexpected(e) == <<"An unexpected error occurred while running Repomix: ">> \o e

\* str(e) of the OSError raised by chmod, by the process spawn and by open
ErrChmod == <<"[Errno 1] Operation not permitted">>
ErrSpawn == <<"[Errno 8] Exec format error">>
ErrOpen == <<"[Errno 13] Permission denied">>

\* the returned tuple
Returned(success, stdout, stderr, path) ==
    [success |-> success, stdout |-> stdout, stderr |-> stderr, output_file_path |-> path]

\* every failure return of the function: return False, <stdout>, <message>, ""
FailureResult(stdout, message) == Returned(FALSE, stdout, message, <<>>)

\* line 159
SuccessResult(stdout, stderr, path) == Returned(TRUE, stdout, stderr, path)

NoResult == Returned(FALSE, <<>>, <<>>, <<>>)

NoProcess == [returncode |-> 0, stdout |-> <<>>, stderr |-> <<>>]

------------------------------------------------------------------------------
(* Permission bits *)

\* the mode of os.chmod(repomix_exe_path, 0o755)
MODE_0755 == 493

\* the owner's execute bit (0o100) of a mode
XBit(mode) == (mode \div 64) % 2 = 1

\* os.access(path, os.X_OK) for the file's owner
AccessX(mode, isNoexec) == XBit(mode) /\ ~isNoexec

------------------------------------------------------------------------------
(* Inputs of the model *)

IN_SAMPLE == <<"s", "a", "m", "p", "l", "e">>
IN_DOT_SAMPLE == <<".", "/", "s", "a", "m", "p", "l", "e">>
IN_SHORTHAND == <<"o", "/", "r">>
IN_HTTP_URL == <<"h", "t", "t", "p", ":", "/", "/", "h", "/", "r">>
IN_HTTPS_URL == <<"h", "t", "t", "p", "s", ":", "/", "/", "h", "/", "r">>
IN_HTTP_ONE_SLASH == <<"h", "t", "t", "p", ":", "/", "h">>
IN_DEEP == <<"a", "/", "b", "/", "c">>
STYLE_XML == <<"x", "m", "l">>
STYLE_MARKDOWN == <<"m", "a", "r", "k", "d", "o", "w", "n">>
STYLE_PLAIN == <<"p", "l", "a", "i", "n">>
OUT_XML == <<"o", "u", "t", ".", "x", "m", "l">>
OUT_ABS == <<"/", "a", "b", "s", ".", "x", "m", "l">>
PATTERN_PY == <<"*", ".", "p", "y">>
PATTERN_MD == <<"*", ".", "m", "d">>

\* largest exit code the external process returns in the model
MaxExitCode == 2

\* exit codes: 0, failures, and -1 for a process killed by signal 1
ExitCodes == (0 - 1)..MaxExitCode

\* what the process may print
Stdouts == {<<>>, <<"packed">>}
Stderrs == {<<>>, <<"warning">>}

NoFlags == [i \in 1..7 |-> FALSE]
AllFlags == [i \in 1..7 |-> TRUE]

Options(input_path, style, name, include, ignore, flags) ==
    [input_path |-> input_path, output_style |-> style, output_file_name |-> name,
     include_patterns |-> include, ignore_patterns |-> ignore, flags |-> flags]

\* the local paths a user may name; they all exist or none does
LocalCandidates == {IN_SAMPLE, IN_DOT_SAMPLE, IN_DEEP, IN_HTTP_ONE_SLASH, SW_COMPRESS}

\* invocations of the runner specification
RunnerOptions ==
    { Options(i, STYLE_XML, n, pf[1], <<>>, pf[2]) :
        i \in {IN_SAMPLE, IN_SHORTHAND, IN_HTTPS_URL},
        n \in {OUT_XML, OUT_ABS},
        pf \in {<<<<>>, NoFlags>>, <<PATTERN_PY, AllFlags>>} }

------------------------------------------------------------------------------
(* State after start-up: an environment, a filesystem, no invocation yet *)

ExePath == get_bundled_repomix_path(platform, frozen, meipass)

InitEnvironment ==
    /\ platform \in Platforms
    /\ frozen \in BOOLEAN
    /\ meipass \in (IF frozen THEN BOOLEAN ELSE {FALSE})
    /\ onPath \in {{}, {"repomix"}, {"npx", "repomix"}}

InitFilesystem ==
    /\ \E exeThere \in (IF SupportedPlatform(platform) THEN BOOLEAN ELSE {FALSE}),
          inputsThere \in BOOLEAN :
          files = (IF exeThere THEN {ExePath} ELSE {})
                  \cup (IF inputsThere THEN LocalCandidates ELSE {})
    /\ exeMode \in (IF ExePath \in files THEN {420, MODE_0755} ELSE {0})
    /\ noexec \in (IF ExePath \in files /\ ~IsWindows(platform) THEN BOOLEAN ELSE {FALSE})

InitInvocation ==
    /\ pc = "Idle"
    /\ opts = Options(<<>>, <<>>, <<>>, <<>>, <<>>, NoFlags)
    /\ repomix_exe_path = <<>>
    /\ cmd_parts = <<>>
    /\ output_file_path = <<>>
    /\ process = NoProcess
    /\ out_at_exit = FALSE
    /\ effects = <<>>
    /\ result = NoResult

\* MainWindow.__init__: empty fields, XML selected, no checkbox checked,
\* the Pack button enabled, no override cursor
InitWindow ==
    /\ path_input_text = <<>>
    /\ style_choice = "xml"
    /\ include_text = <<>>
    /\ ignore_text = <<>>
    /\ checked = [i \in 1..7 |-> FALSE]
    /\ pack_button_enabled = TRUE
    /\ override_cursors = 0
    /\ last_click = "none"

Init == InitEnvironment /\ InitFilesystem /\ InitInvocation /\ InitWindow

------------------------------------------------------------------------------
(* run_repomix_command, one action per step of the function *)

Terminal == {"Success", "Failure", "Raised"}

\* the function returns value r
Return(r) ==
    /\ result' = r
    /\ pc' = IF r.success THEN "Success" ELSE "Failure"

\* a call of run_repomix_command with arguments drawn from options; every
\* call starts from fresh locals and the filesystem the last one left
Invoke(options) ==
    /\ pc \in {"Idle"} \cup Terminal
    /\ opts' \in options
    /\ pc' = "Resolving"
    /\ repomix_exe_path' = <<>>
    /\ cmd_parts' = <<>>
    /\ output_file_path' = <<>>
    /\ process' = NoProcess
    /\ out_at_exit' = FALSE
    /\ effects' = <<>>
    /\ result' = NoResult
    /\ UNCHANGED <<envVars, files, exeMode>>

\* lines 79-83: resolve the executable and check that it exists; on an
\* unsupported platform get_bundled_repomix_path raises EnvironmentError,
\* which nothing in run_repomix_command catches
Resolve ==
    /\ pc = "Resolving"
    /\ IF ~SupportedPlatform(platform)
       THEN /\ pc' = "Raised"
            /\ UNCHANGED <<repomix_exe_path, result>>
       ELSE /\ repomix_exe_path' = get_bundled_repomix_path(platform, frozen, meipass)
            /\ IF repomix_exe_path' \notin files
               THEN Return(FailureResult(<<>>, MsgExecutableNotFound(repomix_exe_path')))
               ELSE pc' = "Permitting" /\ UNCHANGED result
    /\ UNCHANGED <<envVars, files, exeMode, opts, cmd_parts, output_file_path,
                   process, out_at_exit, effects>>

\* a variant of PermitOutcome that does not check again after chmod
PermitOutcome_NoRecheck(plat, path, mode, isNoexec, chmodRaises) ==
    IF plat = <<"win32">>
    THEN [calls |-> <<>>, mode |-> mode, failure |-> <<>>]
    ELSE IF AccessX(mode, isNoexec)
    THEN [calls |-> <<"access">>, mode |-> mode, failure |-> <<>>]
    ELSE IF chmodRaises
    THEN [calls |-> <<"access", "chmod">>, mode |-> mode,
          failure |-> MsgChmodError(path, ErrChmod)]
    ELSE [calls |-> <<"access", "chmod">>, mode |-> MODE_0755, failure |-> <<>>]

\* lines 85-92: the outcome of the permission check and repair, as
\* [calls, mode, failure]: the system calls made, the file's mode afterwards
\* and the failure message (<<>> when the invocation goes on)
PermitOutcome(plat, path, mode, isNoexec, chmodRaises) ==
    IF plat = <<"win32">>
    THEN [calls |-> <<>>, mode |-> mode, failure |-> <<>>]
    ELSE IF AccessX(mode, isNoexec)
    THEN [calls |-> <<"access">>, mode |-> mode, failure |-> <<>>]
    ELSE IF chmodRaises
    THEN [calls |-> <<"access", "chmod">>, mode |-> mode,
          failure |-> MsgChmodError(path, ErrChmod)]
    ELSE [calls |-> <<"access", "chmod", "access">>, mode |-> MODE_0755,
          failure |-> IF AccessX(MODE_0755, isNoexec) THEN <<>>
                      ELSE MsgStillNotExecutable(path)]

Permit ==
    /\ pc = "Permitting"
    /\ \E chmodRaises \in BOOLEAN :
         LET p == PermitOutcome(platform, repomix_exe_path, exeMode, noexec, chmodRaises)
         IN  /\ effects' = effects \o p.calls
             /\ exeMode' = p.mode
             /\ IF p.failure # <<>>
                THEN Return(FailureResult(<<>>, p.failure))
                ELSE pc' = "Building" /\ UNCHANGED result
    /\ UNCHANGED <<envVars, files, opts, repomix_exe_path, cmd_parts,
                   output_file_path, process, out_at_exit>>

\* a variant of InputMissing that never looks at the filesystem
InputMissing_Unchecked(input_path, existing) == FALSE

\* line 100: a local input must exist
InputMissing(input_path, existing) ==
    ~is_url(input_path) /\ input_path \notin existing

\* lines 94-131: classify the input and build the argument list
Build ==
    /\ pc = "Building"
    /\ IF InputMissing(opts.input_path, files)
       THEN /\ Return(FailureResult(<<>>, MsgInputNotFound(opts.input_path)))
            /\ UNCHANGED <<cmd_parts, output_file_path>>
       ELSE /\ output_file_path' = PathJoin(platform, Cwd(platform), opts.output_file_name)
            /\ cmd_parts' = BuildCmdParts(repomix_exe_path, opts, output_file_path')
            /\ pc' = "Executing"
            /\ UNCHANGED result
    /\ UNCHANGED <<envVars, files, exeMode, opts, repomix_exe_path, process,
                   out_at_exit, effects>>

\* line 138, the spawn of subprocess.run: the process starts, or the spawn
\* raises (lines 171-174) and nothing was started
SpawnOutcomes == {"started", "FileNotFoundError", "OSError"}

LaunchFailure(outcome) ==
    IF outcome = "FileNotFoundError" THEN MsgFileNotFound ELSE MsgUnexpected(ErrSpawn)

Launch ==
    /\ pc = "Executing"
    /\ \E outcome \in SpawnOutcomes :
         IF outcome = "started"
         THEN /\ effects' = Append(effects, "spawn")
              /\ pc' = "Running"
              /\ UNCHANGED result
         ELSE /\ Return(FailureResult(<<>>, LaunchFailure(outcome)))
              /\ UNCHANGED effects
    /\ UNCHANGED <<envVars, files, exeMode, opts, repomix_exe_path, cmd_parts,
                   output_file_path, process, out_at_exit>>

\* the external process runs to its end: an exit code, what it printed, and
\* the output file written or not; subprocess.run returns it
ProcessExit ==
    /\ pc = "Running"
    /\ \E rc \in ExitCodes, so \in Stdouts, se \in Stderrs, writes \in BOOLEAN :
         /\ process' = [returncode |-> rc, stdout |-> so, stderr |-> se]
         /\ files' = IF writes THEN files \cup {output_file_path} ELSE files
    /\ out_at_exit' = (output_file_path \in files')
    /\ pc' = "Classifying"
    /\ UNCHANGED <<envVars, exeMode, opts, repomix_exe_path, cmd_parts,
                   output_file_path, effects, result>>

\* line 150: the runner writes the output file itself
SimulatesOutput(exe, outExists) == ~outExists /\ Contains(exe, PLACEHOLDER)

\* a variant of ClassifyExit that returns the output path with a tool failure
ClassifyExit_KeepsPath(proc, outExists, outPath) ==
    IF proc.returncode = 0
    THEN IF outExists
         THEN SuccessResult(proc.stdout, proc.stderr, outPath)
         ELSE FailureResult(proc.stdout,
                            MsgSilentFailure(outPath, proc.stdout, proc.stderr))
    ELSE Returned(FALSE, proc.stdout,
                  MsgToolFailure(proc.returncode, proc.stdout, proc.stderr), outPath)

\* lines 140-169, given whether the output file exists at line 158
ClassifyExit(proc, outExists, outPath) ==
    IF proc.returncode = 0
    THEN IF outExists
         THEN SuccessResult(proc.stdout, proc.stderr, outPath)
         ELSE FailureResult(proc.stdout,
                            MsgSilentFailure(outPath, proc.stdout, proc.stderr))
    ELSE FailureResult(proc.stdout,
                       MsgToolFailure(proc.returncode, proc.stdout, proc.stderr))

\* lines 140-174 after subprocess.run returned; open() at line 152 creates
\* the file or raises into the handler of line 173
Classify ==
    /\ pc = "Classifying"
    /\ IF process.returncode = 0
          /\ SimulatesOutput(repomix_exe_path, output_file_path \in files)
       THEN \E opened \in BOOLEAN :
              IF opened
              THEN /\ files' = files \cup {output_file_path}
                   /\ effects' = Append(effects, "write")
                   /\ Return(ClassifyExit(process, TRUE, output_file_path))
              ELSE /\ Return(FailureResult(<<>>, MsgUnexpected(ErrOpen)))
                   /\ UNCHANGED <<files, effects>>
       ELSE /\ Return(ClassifyExit(process, output_file_path \in files, output_file_path))
            /\ UNCHANGED <<files, effects>>
    /\ UNCHANGED <<envVars, exeMode, opts, repomix_exe_path, cmd_parts,
                   output_file_path, process, out_at_exit>>

\* run_repomix_command knows nothing of the window
Next ==
    \/ Invoke(RunnerOptions) /\ UNCHANGED windowVars
    \/ Resolve /\ UNCHANGED windowVars
    \/ Permit /\ UNCHANGED windowVars
    \/ Build /\ UNCHANGED windowVars
    \/ Launch /\ UNCHANGED windowVars
    \/ ProcessExit /\ UNCHANGED windowVars
    \/ Classify /\ UNCHANGED windowVars

Spec == Init /\ [][Next]_vars

------------------------------------------------------------------------------
(* The argument builder on a wide set of options: the same steps up to the *)
(* built argument list, in an environment where the executable is found    *)

FTP == <<"f", "t", "p", ":", "/", "/">>

\* longest generated part of an input string
MaxInputLen == 3

\* every text over {"a", "/"} of at most MaxInputLen characters
ShortTexts == UNION {[1..n -> {"a", "/"}] : n \in 0..MaxInputLen}

\* inputs: each scheme prefix (or none) followed by each short text, and the
\* sample inputs
BuilderInputs ==
    {p \o t : p \in {<<>>, HTTP, HTTPS, FTP}, t \in ShortTexts}
    \cup {IN_SAMPLE, IN_DOT_SAMPLE, IN_SHORTHAND, IN_HTTP_URL, IN_HTTPS_URL,
          IN_HTTP_ONE_SLASH, IN_DEEP, SW_COMPRESS}

Styles == {STYLE_XML, STYLE_MARKDOWN, STYLE_PLAIN}

\* the local paths that exist in the builder's filesystem (when any does)
BuilderLocals == {i \in BuilderInputs : i # <<>>}

BuilderOptions ==
    \* every input, nothing else set
    { Options(i, STYLE_XML, OUT_XML, <<>>, <<>>, NoFlags) : i \in BuilderInputs }
    \cup
    \* every combination of the seven flags
    { Options(ip[1], STYLE_XML, OUT_XML, ip[2], ip[3], f) :
        ip \in {<<IN_SAMPLE, <<>>, <<>>>>,
                <<IN_SHORTHAND, PATTERN_PY, PATTERN_MD>>,
                <<SW_COMPRESS, SW_COMPRESS, SW_REMOVE_COMMENTS>>},
        f \in [1..7 -> BOOLEAN] }
    \cup
    \* every style, file name and pattern pair
    { Options(i, st, n, inc, ign, NoFlags) :
        i \in {IN_DOT_SAMPLE, IN_SAMPLE, IN_HTTPS_URL},
        st \in Styles,
        n \in {OUT_XML, OUT_ABS, <<>>},
        inc \in {<<>>, PATTERN_PY, SW_COMPRESS},
        ign \in {<<>>, PATTERN_MD, SW_COMPRESS} }

InitBuild ==
    /\ platform \in {<<"linux">>, <<"win32">>}
    /\ frozen = TRUE
    /\ meipass = FALSE
    /\ onPath = {}
    /\ files \in {{ExePath}, {ExePath} \cup BuilderLocals}
    /\ exeMode \in {420, MODE_0755}
    /\ noexec = FALSE
    /\ InitInvocation
    /\ InitWindow

NextBuild ==
    \/ Invoke(BuilderOptions) /\ UNCHANGED windowVars
    \/ Resolve /\ UNCHANGED windowVars
    \/ Permit /\ UNCHANGED windowVars
    \/ Build /\ UNCHANGED windowVars

SpecBuild == InitBuild /\ [][NextBuild]_vars

------------------------------------------------------------------------------
(* Vocabulary of the properties *)

\* the invocation has returned a tuple
Finished == pc \in {"Success", "Failure"}

\* the external process was launched by this invocation
Spawned == \E i \in DOMAIN effects : effects[i] = "spawn"

\* this invocation made system call c
Called(c) == \E i \in DOMAIN effects : effects[i] = c

\* the steps before the executable's path is known
Unresolved == pc \in {"Idle", "Resolving", "Raised"}

\* number of "/" characters in a text
SlashCount(s) == Cardinality({i \in DOMAIN s : s[i] = "/"})

\* number of occurrences of x in a list
Count(list, x) == Cardinality({i \in DOMAIN list : list[i] = x})

\* the error classes of the taxonomy, by the message the code returns
IsInputNotFound(r) == r = FailureResult(<<>>, MsgInputNotFound(opts.input_path))

IsExecutableNotFound(r) == r = FailureResult(<<>>, MsgExecutableNotFound(repomix_exe_path))

IsPermissionRepairFailed(r) ==
    \/ r = FailureResult(<<>>, MsgStillNotExecutable(repomix_exe_path))
    \/ r = FailureResult(<<>>, MsgChmodError(repomix_exe_path, ErrChmod))

IsSilentFailure(r) ==
    r = FailureResult(process.stdout,
            MsgSilentFailure(output_file_path, process.stdout, process.stderr))

------------------------------------------------------------------------------
(* C1 *)

\* C1: whenever the process exited with code 0 and the expected output file
\* was absent when it finished, the returned result is the SilentFailure
\* failure (success false, empty path, message with the captured output),
\* never a success.
C1_SilentFailure ==
    (Finished /\ Spawned /\ process.returncode = 0 /\ ~out_at_exit)
        => IsSilentFailure(result)

------------------------------------------------------------------------------
(* C2 *)

\* C2: on every platform and in every filesystem state an invocation ends
\* by returning a structured result; no exception leaves
\* run_repomix_command.
C2_NeverRaises == pc # "Raised"

------------------------------------------------------------------------------
(* C3 *)

LocalAndMissing == ~is_url(opts.input_path) /\ opts.input_path \notin files

\* C3 as stated: a local input that does not exist makes the invocation
\* fail with InputNotFound, before any launch, whatever the state of the
\* executable.
C3_InputNotFoundAlways ==
    (pc \in Terminal /\ LocalAndMissing) => (IsInputNotFound(result) /\ ~Spawned)

\* the executable is there and runnable when the permission step has ended
ExecutableReady ==
    /\ SupportedPlatform(platform)
    /\ ExePath \in files
    /\ IsWindows(platform) \/ AccessX(exeMode, noexec)

\* C3 amended: with a local input that does not exist no process is ever
\* launched and the invocation never succeeds; it fails with InputNotFound
\* when the executable exists and is executable after the permission step,
\* with ExecutableNotFound when the executable is missing, and with
\* PermissionRepairFailed when it cannot be made executable.
C3_InputNotFound ==
    (pc \in Terminal /\ LocalAndMissing) =>
        /\ ~Spawned
        /\ pc # "Success"
        /\ ExecutableReady => IsInputNotFound(result)
        /\ (SupportedPlatform(platform) /\ ExePath \notin files)
               => IsExecutableNotFound(result)
        /\ (ExePath \in files /\ ~ExecutableReady) => IsPermissionRepairFailed(result)

\* a missing local input is reported after the executable was repaired
C3_Witness ==
    /\ pc = "Failure"
    /\ LocalAndMissing
    /\ IsInputNotFound(result)
    /\ Called("chmod")

------------------------------------------------------------------------------
(* C4 *)

\* the classification the claim gives: an http:// or https:// prefix, or
\* exactly two segments around a single "/"
RemoteByRule(s) ==
    \/ Len(s) >= Len(HTTP) /\ \A i \in DOMAIN HTTP : s[i] = HTTP[i]
    \/ Len(s) >= Len(HTTPS) /\ \A i \in DOMAIN HTTPS : s[i] = HTTPS[i]
    \/ SlashCount(s) = 1

\* C4: an input is treated as remote exactly when it starts with http:// or
\* https:// or holds exactly one "/" (two segments, empty ones included);
\* a remote input is passed as "--remote", <input>, any other input must
\* exist and is passed as one positional argument.
C4_Classification ==
    /\ pc = "Executing" =>
          IF RemoteByRule(opts.input_path)
          THEN SubSeq(cmd_parts, 2, 4) = <<REMOTE, opts.input_path, OPT_O>>
          ELSE /\ SubSeq(cmd_parts, 2, 3) = <<opts.input_path, OPT_O>>
               /\ opts.input_path \in files
    /\ (pc = "Failure" /\ IsInputNotFound(result)) =>
          /\ ~RemoteByRule(opts.input_path)
          /\ opts.input_path \notin files

\* the owner/repo shorthand is passed with --remote, without existing on disk
C4_Witness ==
    /\ pc = "Executing"
    /\ opts.input_path = IN_SHORTHAND
    /\ IN_SHORTHAND \notin files
    /\ cmd_parts[2] = REMOTE
    /\ cmd_parts[3] = IN_SHORTHAND

------------------------------------------------------------------------------
(* C5 *)

\* C5: for the existing local input "./sample" with style xml, output file
\* name out.xml, no patterns and no flag set, the argument list after the
\* executable is  ./sample -o <cwd>/out.xml --style xml --quiet : the input
\* is positional and there is no --remote.
C5_DotSamplePositional ==
    (/\ pc = "Executing"
     /\ opts = Options(IN_DOT_SAMPLE, STYLE_XML, OUT_XML, <<>>, <<>>, NoFlags)
     /\ IN_DOT_SAMPLE \in files)
        => /\ Tail(cmd_parts) =
                <<IN_DOT_SAMPLE, OPT_O,
                  Cwd(platform) \o <<Sep(platform)>> \o OUT_XML,
                  OPT_STYLE, STYLE_XML, QUIET>>
           /\ Count(cmd_parts, REMOTE) = 0

------------------------------------------------------------------------------
(* C6 *)

SwitchTexts == {Switches[i] : i \in DOMAIN Switches}

\* each flag's switch occurs once when the flag is set and never otherwise,
\* and the switches that occur follow the order of Switches
SwitchesMatchFlags ==
    /\ \A i \in DOMAIN Switches :
          Count(cmd_parts, Switches[i]) = (IF opts.flags[i] THEN 1 ELSE 0)
    /\ \A p, q \in DOMAIN cmd_parts : \A i, j \in DOMAIN Switches :
          (p < q /\ cmd_parts[p] = Switches[i] /\ cmd_parts[q] = Switches[j]) => i < j

\* C6 as stated: for every options value, any input and any pattern strings
\* included, a set flag's switch occurs exactly once in the argument list,
\* an unset flag's switch does not occur, and the switches keep one order.
C6_SwitchesAnyOptions == pc = "Executing" => SwitchesMatchFlags

\* C6 amended: the same, for every options value whose input and pattern
\* strings are not themselves the text of one of the seven switches (such a
\* value is passed on verbatim and is one more occurrence of that switch).
C6_Switches ==
    (/\ pc = "Executing"
     /\ opts.input_path \notin SwitchTexts
     /\ opts.include_patterns \notin SwitchTexts
     /\ opts.ignore_patterns \notin SwitchTexts)
        => SwitchesMatchFlags

\* some flags set, others not, with patterns present
C6_Witness ==
    /\ pc = "Executing"
    /\ opts.input_path = IN_SHORTHAND
    /\ opts.include_patterns = PATTERN_PY
    /\ opts.flags = [i \in 1..7 |-> i \in {2, 5, 7}]
    /\ Count(cmd_parts, SW_COMPRESS) = 1
    /\ Count(cmd_parts, SW_NO_FILE_SUMMARY) = 0

------------------------------------------------------------------------------
(* C7 *)

\* C7: whenever the process exited with a non-zero code the result is a
\* failure with an empty output file path whose message holds the exit
\* code, the whole captured stdout and the whole captured stderr, whether
\* or not the output file exists.
C7_ToolFailure ==
    (Finished /\ Spawned /\ process.returncode # 0) =>
        /\ ~result.success
        /\ result.output_file_path = <<>>
        /\ Contains(result.stderr, IntToStr(process.returncode))
        /\ Contains(result.stderr, <<"Stdout:\n">> \o process.stdout)
        /\ Contains(result.stderr, <<"Stderr:\n">> \o process.stderr)

\* a non-zero exit with output on both streams and the output file written
C7_Witness ==
    /\ pc = "Failure"
    /\ Spawned
    /\ process.returncode = 2
    /\ process.stdout # <<>>
    /\ process.stderr # <<>>
    /\ out_at_exit
    /\ output_file_path \in files

------------------------------------------------------------------------------
(* C8 *)

\* C8: in every returned result the output file path is non-empty exactly
\* when the success flag is true; success is returned only after the
\* process exited with code 0 and with the output file existing, and then
\* the path is the working directory joined (os.path.join) with the given
\* file name and stdout and stderr are the captured output unchanged.
C8_ResultShape ==
    Finished =>
        /\ (result.output_file_path # <<>>) <=> result.success
        /\ result.success <=> (pc = "Success")
        /\ result.success =>
              /\ Spawned
              /\ process.returncode = 0
              /\ output_file_path \in files
              /\ result.output_file_path =
                    PathJoin(platform, Cwd(platform), opts.output_file_name)
              /\ result.output_file_path = output_file_path
              /\ result.stdout = process.stdout
              /\ result.stderr = process.stderr

\* a success with captured output on both streams
C8_Witness ==
    /\ pc = "Success"
    /\ result.success
    /\ result.stdout = <<"packed">>
    /\ result.stderr = <<"warning">>
    /\ result.output_file_path = Cwd(platform) \o <<Sep(platform)>> \o OUT_XML

------------------------------------------------------------------------------
(* C9 *)

\* C9: on a non-Windows platform an executable that exists but lacks
\* execute permission is given mode 0755 and checked again; if it is then
\* executable the invocation goes on to build the arguments from the state
\* an executable file would have left (mode 0755, nothing else touched) and
\* may launch the process; if it is still not executable, or chmod raised,
\* the invocation fails with PermissionRepairFailed and launches nothing.
\* Without a repair the invocation only goes on with an executable file.
\* On Windows neither access nor chmod is called.
C9_PermissionRepair ==
    /\ IsWindows(platform) => (~Called("access") /\ ~Called("chmod"))
    /\ (~IsWindows(platform) /\ Called("chmod")) =>
          /\ SubSeq(effects, 1, 2) = <<"access", "chmod">>
          /\ IF AccessX(exeMode, noexec)
             THEN /\ exeMode = MODE_0755
                  /\ Len(effects) >= 3
                  /\ SubSeq(effects, 1, 3) = <<"access", "chmod", "access">>
                  /\ ~IsPermissionRepairFailed(result)
                  /\ pc = "Building" =>
                        /\ result = NoResult
                        /\ cmd_parts = <<>>
                        /\ output_file_path = <<>>
                        /\ process = NoProcess
                        /\ effects = <<"access", "chmod", "access">>
             ELSE /\ pc = "Failure"
                  /\ IsPermissionRepairFailed(result)
                  /\ ~Spawned
    /\ (~IsWindows(platform) /\ ~Called("chmod")
            /\ pc \in {"Building", "Executing", "Running", "Classifying", "Success"}) =>
          /\ effects[1] = "access"
          /\ AccessX(exeMode, noexec)

\* the executable was repaired and the process it launched led to a success
C9_Witness ==
    /\ pc = "Success"
    /\ ~IsWindows(platform)
    /\ Called("chmod")
    /\ Spawned
    /\ exeMode = MODE_0755

------------------------------------------------------------------------------
(* C10 *)

\* where the search path finds a command (shutil.which)
Which(name) == MkPath(platform, <<<<"usr">>, <<"bin">>, name>>)

BundleDir ==
    IF frozen
    THEN (IF meipass THEN MkPath(platform, <<<<"tmp">>, <<"_MEI1">>>>)
          ELSE MkPath(platform, <<<<"opt">>, <<"RepoPacker">>>>))
         \o <<Sep(platform), "bundled_repomix_bin">>
    ELSE MkPath(platform,
             <<<<"proj">>, <<"build_prep">>, <<"repomix_cli">>, <<"dist">>>>)

\* the bundled file name of each supported platform, written out
BundleName ==
    CASE platform = <<"win32">> -> <<"repomix-placeholder", "-standalone-win.exe">>
      [] platform = <<"darwin">> -> <<"repomix-placeholder", "-standalone-macos">>
      [] platform = <<"linux">> -> <<"repomix-placeholder", "-standalone-linux">>

------------------------------------------------------------------------------
(* C11 *)

\* list holds a immediately followed by b
HasPair(list, a, b) ==
    \E i \in 1..(Len(list) - 1) : list[i] = a /\ list[i + 1] = b

\* os.getcwd() joined with a file name, written out: a relative name (the
\* empty one included) is appended after a separator, a rooted name
\* replaces the directory (keeping the drive on Windows)
JoinedWithCwd(name) ==
    IF name # <<>> /\ name[1] \in (IF IsWindows(platform) THEN {"/", "\\"} ELSE {"/"})
    THEN (IF IsWindows(platform) THEN <<"C", ":">> ELSE <<>>) \o name
    ELSE Cwd(platform) \o <<Sep(platform)>> \o name

\* C11: every built argument list holds "-o" immediately followed by the
\* working directory joined (os.path.join) with the given file name,
\* whether relative, absolute or empty, "--style" immediately followed by
\* the style, the pair "--include" <include pattern> exactly when that
\* pattern is non-empty, the pair "--ignore" <ignore pattern> exactly when
\* that pattern is non-empty, and "--quiet" as its last element.
C11_FixedArguments ==
    pc = "Executing" =>
        /\ HasPair(cmd_parts, OPT_O, JoinedWithCwd(opts.output_file_name))
        /\ output_file_path = JoinedWithCwd(opts.output_file_name)
        /\ HasPair(cmd_parts, OPT_STYLE, opts.output_style)
        /\ HasPair(cmd_parts, OPT_INCLUDE, opts.include_patterns)
              <=> (opts.include_patterns # <<>>)
        /\ HasPair(cmd_parts, OPT_IGNORE, opts.ignore_patterns)
              <=> (opts.ignore_patterns # <<>>)
        /\ cmd_parts[Len(cmd_parts)] = QUIET

\* an absolute file name with an ignore pattern and no include pattern
C11_Witness ==
    /\ pc = "Executing"
    /\ opts.output_file_name = OUT_ABS
    /\ opts.include_patterns = <<>>
    /\ opts.ignore_patterns = PATTERN_MD
    /\ opts.output_style = STYLE_PLAIN
    /\ HasPair(cmd_parts, OPT_O, (IF IsWindows(platform) THEN <<"C", ":">> ELSE <<>>) \o OUT_ABS)

------------------------------------------------------------------------------
(* C12 *)

\* The flag grammar of the packaging tool, read left to right after the
\* executable: an option that takes a value consumes the next argument
\* whatever its text, a switch sets its flag, anything else is the
\* positional input.
NothingParsed ==
    [input |-> <<>>, remote |-> FALSE, output |-> <<>>, style |-> <<>>,
     include |-> <<>>, ignore |-> <<>>, flags |-> NoFlags, quiet |-> FALSE]

SwitchIndex(a) == CHOOSE k \in DOMAIN Switches : Switches[k] = a

RECURSIVE ParseFrom(_, _, _)
ParseFrom(args, i, acc) ==
    IF i > Len(args) THEN acc
    ELSE LET a == args[i]
             hasValue == i < Len(args)
         IN  IF a = REMOTE /\ hasValue
             THEN ParseFrom(args, i + 2, [acc EXCEPT !.input = args[i + 1], !.remote = TRUE])
             ELSE IF a = OPT_O /\ hasValue
             THEN ParseFrom(args, i + 2, [acc EXCEPT !.output = args[i + 1]])
             ELSE IF a = OPT_STYLE /\ hasValue
             THEN ParseFrom(args, i + 2, [acc EXCEPT !.style = args[i + 1]])
             ELSE IF a = OPT_INCLUDE /\ hasValue
             THEN ParseFrom(args, i + 2, [acc EXCEPT !.include = args[i + 1]])
             ELSE IF a = OPT_IGNORE /\ hasValue
             THEN ParseFrom(args, i + 2, [acc EXCEPT !.ignore = args[i + 1]])
             ELSE IF \E k \in DOMAIN Switches : Switches[k] = a
             THEN ParseFrom(args, i + 1, [acc EXCEPT !.flags[SwitchIndex(a)] = TRUE])
             ELSE IF a = QUIET
             THEN ParseFrom(args, i + 1, [acc EXCEPT !.quiet = TRUE])
             ELSE ParseFrom(args, i + 1, [acc EXCEPT !.input = a])

\* the options the tool reads from an argument list (argv[0] is the program)
ParseArgs(args) == ParseFrom(args, 2, NothingParsed)

\* C12: parsing the built argument list by the tool's flag grammar gives
\* back the style, the include and ignore patterns and the seven flag
\* values it was built from, also when the input or a pattern is itself
\* the text of a switch.
C12_RoundTrip ==
    pc = "Executing" =>
        LET parsed == ParseArgs(cmd_parts)
        IN  /\ parsed.style = opts.output_style
            /\ parsed.include = opts.include_patterns
            /\ parsed.ignore = opts.ignore_patterns
            /\ parsed.flags = opts.flags

\* the round trip for the options whose input is not the text of a switch
\* (kept for comparison with C12_RoundTrip: pattern values are consumed as
\* values and do not disturb it)
RoundTripUnlessInputIsSwitch ==
    (pc = "Executing" /\ opts.input_path \notin SwitchTexts) =>
        LET parsed == ParseArgs(cmd_parts)
        IN  /\ parsed.style = opts.output_style
            /\ parsed.include = opts.include_patterns
            /\ parsed.ignore = opts.ignore_patterns
            /\ parsed.flags = opts.flags
            /\ parsed.input = opts.input_path
            /\ parsed.remote = is_url(opts.input_path)
            /\ parsed.output = output_file_path
            /\ parsed.quiet

------------------------------------------------------------------------------
(* C13 *)

\* the phase of the state machine a step of the function belongs to:
\* building the arguments, spawning and waiting are all part of Executing
Phase(p) == IF p \in {"Building", "Executing", "Running"} THEN "Executing" ELSE p

\* the phase changes of an invocation: forward one phase at a time, or
\* from a phase straight to Failure; a terminal state is left only by the
\* next invocation
PhaseSteps ==
    {<<"Idle", "Resolving">>,
     <<"Resolving", "Permitting">>, <<"Resolving", "Failure">>,
     <<"Permitting", "Executing">>, <<"Permitting", "Failure">>,
     <<"Executing", "Classifying">>, <<"Executing", "Failure">>,
     <<"Classifying", "Success">>, <<"Classifying", "Failure">>,
     <<"Success", "Resolving">>, <<"Failure", "Resolving">>}

\* number of processes this invocation launched
SpawnCount == Cardinality({i \in DOMAIN effects : effects[i] = "spawn"})

\* C13: an invocation goes through Idle, Resolving, Permitting, Executing,
\* Classifying in that order and ends in Success or Failure and in nothing
\* else; a failing phase goes straight to Failure; the process is launched
\* at most once in an invocation.
C13_PhaseOrder ==
    [][/\ Phase(pc') # Phase(pc) => <<Phase(pc), Phase(pc')>> \in PhaseSteps
       /\ SpawnCount' <= 1]_vars

\* the scheduling of a blocking call: once subprocess.run has returned, the
\* function runs on to its return
SpecFair == Spec /\ WF_vars(Classify /\ UNCHANGED windowVars)

\* the last part of C13: once the launched process has exited, the
\* invocation reaches a terminal state
ExitLeadsToReturn == (pc = "Classifying") ~> Finished

------------------------------------------------------------------------------
(* C14 *)

\* the invocation failed before any launch, for the executable or the input
FailedBeforeLaunch ==
    /\ pc = "Failure"
    /\ IsExecutableNotFound(result) \/ IsInputNotFound(result)

\* C14: an invocation that fails with ExecutableNotFound or InputNotFound
\* has left the filesystem as it found it (no change of the executable's
\* permission bits, no output file written, nothing launched), and in no
\* invocation does the runner itself write the output file.
C14_NoSideEffects ==
    /\ FailedBeforeLaunch => (~Called("chmod") /\ ~Called("write") /\ ~Spawned)
    /\ ~Called("write")


-----------------------------------------------------------------------------
\* The main window (main_window.py)

Whitespace == {" ", "\t"}

RECURSIVE LStrip(_)
LStrip(s) ==
    IF s # <<>> /\ Head(s) \in Whitespace THEN LStrip(Tail(s)) ELSE s

RECURSIVE RStrip(_)
RStrip(s) ==
    IF s # <<>> /\ s[Len(s)] \in Whitespace
    THEN RStrip(SubSeq(s, 1, Len(s) - 1))
    ELSE s

\* str.strip()
Strip(s) == LStrip(RStrip(s))

\* texts a user types into the input field
WindowInputs ==
    { <<>>, <<" ">>, <<" ", "\t">>, IN_SHORTHAND, IN_SAMPLE,
      <<" ">> \o IN_SHORTHAND \o <<" ">> }

WindowPatterns == {<<>>, PATTERN_PY}

WindowStyles == {"xml", "markdown", "plain"}

\* directories QFileDialog.getExistingDirectory can hand back; the empty
\* text is a cancelled dialog
DialogResults == {<<>>, <<"/", "w">>}

\* the names bound in main_window's module namespace by its import statements
ImportedNames ==
    { "sys", "Qt", "QPalette", "QColor", "QFont", "QClipboard",
      "QApplication", "QMainWindow", "QWidget", "QVBoxLayout", "QHBoxLayout",
      "QLabel", "QLineEdit", "QPushButton", "QRadioButton", "QCheckBox",
      "QTextEdit", "QGroupBox", "QFileDialog", "QMessageBox", "QSizePolicy",
      "QButtonGroup" }

\* the user edits a field
SetInputText(t) ==
    /\ path_input_text' = t
    /\ UNCHANGED <<style_choice, include_text, ignore_text, checked,
                   pack_button_enabled, override_cursors, last_click>>
    /\ UNCHANGED runnerVars

SetIncludeText(t) ==
    /\ include_text' = t
    /\ UNCHANGED <<path_input_text, style_choice, ignore_text, checked,
                   pack_button_enabled, override_cursors, last_click>>
    /\ UNCHANGED runnerVars

SetIgnoreText(t) ==
    /\ ignore_text' = t
    /\ UNCHANGED <<path_input_text, style_choice, include_text, checked,
                   pack_button_enabled, override_cursors, last_click>>
    /\ UNCHANGED runnerVars

\* the radio buttons are exclusive
SelectStyle(st) ==
    /\ style_choice' = st
    /\ UNCHANGED <<path_input_text, include_text, ignore_text, checked,
                   pack_button_enabled, override_cursors, last_click>>
    /\ UNCHANGED runnerVars

ToggleCheckbox(i) ==
    /\ checked' = [checked EXCEPT ![i] = ~checked[i]]
    /\ UNCHANGED <<path_input_text, style_choice, include_text, ignore_text,
                   pack_button_enabled, override_cursors, last_click>>
    /\ UNCHANGED runnerVars

on_folder_button_clicked(directory) ==
    /\ path_input_text' = IF directory # <<>> THEN directory ELSE path_input_text
    /\ UNCHANGED <<style_choice, include_text, ignore_text, checked,
                   pack_button_enabled, override_cursors, last_click>>
    /\ UNCHANGED runnerVars

\* The Pack handler, from the click to the point where control is back in
\* the event loop.  A disabled button emits no click.  With an empty stripped
\* input it warns and returns.  Otherwise it disables the button, pushes the
\* wait cursor and evaluates the name run_repomix_command, which no import
\* binds: NameError leaves the handler there, outside any try, so neither
\* the runner nor the two restoring statements are reached.
on_pack_button_clicked ==
    /\ pack_button_enabled
    /\ LET input_path == Strip(path_input_text) IN
       IF input_path = <<>>
       THEN /\ last_click' = "input_missing"
            /\ UNCHANGED <<pack_button_enabled, override_cursors>>
       ELSE /\ pack_button_enabled' = FALSE
            /\ override_cursors' = override_cursors + 1
            /\ "run_repomix_command" \notin ImportedNames
            /\ last_click' = "NameError"
    /\ UNCHANGED <<path_input_text, style_choice, include_text, ignore_text,
                   checked>>
    /\ UNCHANGED runnerVars

InitUI ==
    /\ InitBuild
    /\ platform = <<"linux">>
    /\ exeMode = MODE_0755
    /\ files = {ExePath}

NextUI ==
    \/ \E t \in WindowInputs : SetInputText(t)
    \/ \E t \in WindowPatterns : SetIncludeText(t)
    \/ \E t \in WindowPatterns : SetIgnoreText(t)
    \/ \E st \in WindowStyles : SelectStyle(st)
    \/ \E i \in 1..7 : ToggleCheckbox(i)
    \/ \E d \in DialogResults : on_folder_button_clicked(d)
    \/ on_pack_button_clicked

SpecUI == InitUI /\ [][NextUI]_vars

\* a run of run_repomix_command is under way
RunInProgress == pc \notin ({"Idle"} \cup Terminal)

\* C15: the Pack button is disabled and the wait cursor set only while a run
\* is in progress; once a Pack action is over, however the runner call
\* ended, the button is enabled and the cursor override is gone; a click
\* with an empty or whitespace-only input starts no run and leaves the
\* button enabled.
C15_PackButtonRestored ==
    /\ (~pack_button_enabled \/ override_cursors > 0) => RunInProgress
    /\ last_click # "none" => (pack_button_enabled /\ override_cursors = 0)
    /\ last_click = "input_missing" => (pack_button_enabled /\ pc = "Idle")

\* the part of C15 about empty input, which the handler keeps
EmptyClickLeavesButtonEnabled ==
    last_click = "input_missing" =>
        /\ pack_button_enabled
        /\ override_cursors = 0
        /\ pc = "Idle"

====
